---------------------------- MODULE Spec2Model ----------------------------
(***************************************************************************)
(* A model of polonium, a Pushover API client (src/src/lib.rs,             *)
(* src/src/attachment.rs) and of its command line front end                *)
(* (src/po/src/main.rs).                                                   *)
(*                                                                         *)
(* Text is modelled as a sequence of one-character strings, so that the    *)
(* conversions of the program (decimal formatting, lowercasing, splitting  *)
(* a URL path) are computed and not assumed.  An Option<T> is a sequence   *)
(* of length at most one: <<>> is None and <<v>> is Some(v).               *)
(***************************************************************************)
EXTENDS Integers, Sequences, FiniteSets, TLC

VARIABLES
    request,      \* Notification.request: the Request record
    attachment,   \* Notification.attachment: Option<&Attachment>
    attached,     \* whether attach was ever called on the notification
    lastAttach,   \* the argument of the most recent attach call (history)
    prevAttach,   \* the argument of the attach call before it (history)
    sendPc,       \* position of send: idle, awaitSend, awaitText, done
    form,         \* the multipart form handed to the POST (<<>> before)
    httpStatus,   \* Option: HTTP status of the response to the POST
    body,         \* Option: the response body read as text
    result,       \* Option: what send returned, <<"Ok", r>> or <<"Err", e>>
    fuPc,         \* position of from_url: idle, awaitGet, awaitBytes, done
    fuUrl,        \* Option: the argument of from_url
    fuFilename,   \* Option: the local `filename` of from_url
    fuStatus,     \* Option: HTTP status of the response to the GET
    fuBuffer,     \* Option: the local `buffer` of from_url
    fuResult,     \* Option: what from_url returned
    getCount,     \* number of calls of reqwest::get made by from_url
    opts,         \* the command line options of po (Opts)
    cliPc,        \* position of main: start, sending, exit
    enumIn,       \* a pair of values of one enumeration
    enumOut       \* Option: their wire values, <<a, b>>

vars == <<request, attachment, attached, lastAttach, prevAttach, sendPc, form,
          httpStatus, body, result, fuPc, fuUrl, fuFilename, fuStatus, fuBuffer, fuResult,
          getCount, opts, cliPc, enumIn, enumOut>>

sendVars == <<request, attachment, attached, lastAttach, prevAttach, sendPc,
              form, httpStatus, body, result>>
urlVars  == <<fuPc, fuUrl, fuFilename, fuStatus, fuBuffer, fuResult, getCount>>
cliVars  == <<opts, cliPc>>
enumVars == <<enumIn, enumOut>>

---------------------------------------------------------------------------
(* Option<T> *)

NoneOpt == <<>>
Some(v) == <<v>>
IsSome(o) == Len(o) = 1

---------------------------------------------------------------------------
(* Enumerations and their ToString (strum) *)

HTML == {"None", "Enabled"}

Monospace == {"None", "Enabled"}

Priority == {"Normal", "Lowest", "Low", "High", "Emergency"}

\* The identifier of every variant of Sound, spelled out.
SoundIdent ==
       ("Pushover"     :> <<"P","u","s","h","o","v","e","r">>)
    @@ ("Bike"         :> <<"B","i","k","e">>)
    @@ ("Bugle"        :> <<"B","u","g","l","e">>)
    @@ ("CashRegister" :> <<"C","a","s","h","R","e","g","i","s","t","e","r">>)
    @@ ("Classical"    :> <<"C","l","a","s","s","i","c","a","l">>)
    @@ ("Cosmic"       :> <<"C","o","s","m","i","c">>)
    @@ ("Falling"      :> <<"F","a","l","l","i","n","g">>)
    @@ ("GameLan"      :> <<"G","a","m","e","L","a","n">>)
    @@ ("Incoming"     :> <<"I","n","c","o","m","i","n","g">>)
    @@ ("Intermission" :> <<"I","n","t","e","r","m","i","s","s","i","o","n">>)
    @@ ("Magic"        :> <<"M","a","g","i","c">>)
    @@ ("Mechanical"   :> <<"M","e","c","h","a","n","i","c","a","l">>)
    @@ ("PianoBar"     :> <<"P","i","a","n","o","B","a","r">>)
    @@ ("Siren"        :> <<"S","i","r","e","n">>)
    @@ ("SpaceAlarm"   :> <<"S","p","a","c","e","A","l","a","r","m">>)
    @@ ("Tugboat"      :> <<"T","u","g","b","o","a","t">>)
    @@ ("Alien"        :> <<"A","l","i","e","n">>)
    @@ ("Climb"        :> <<"C","l","i","m","b">>)
    @@ ("Persistent"   :> <<"P","e","r","s","i","s","t","e","n","t">>)
    @@ ("Echo"         :> <<"E","c","h","o">>)
    @@ ("UpDown"       :> <<"U","p","D","o","w","n">>)
    @@ ("Vibrate"      :> <<"V","i","b","r","a","t","e">>)
    @@ ("None"         :> <<"N","o","n","e">>)

Sound == DOMAIN SoundIdent

UpperToLower ==
       ("A" :> "a") @@ ("B" :> "b") @@ ("C" :> "c") @@ ("D" :> "d")
    @@ ("E" :> "e") @@ ("F" :> "f") @@ ("G" :> "g") @@ ("H" :> "h")
    @@ ("I" :> "i") @@ ("J" :> "j") @@ ("K" :> "k") @@ ("L" :> "l")
    @@ ("M" :> "m") @@ ("N" :> "n") @@ ("O" :> "o") @@ ("P" :> "p")
    @@ ("Q" :> "q") @@ ("R" :> "r") @@ ("S" :> "s") @@ ("T" :> "t")
    @@ ("U" :> "u") @@ ("V" :> "v") @@ ("W" :> "w") @@ ("X" :> "x")
    @@ ("Y" :> "y") @@ ("Z" :> "z")

\* A faulty lowercasing, which leaves the first character as it is.
to_lowercase_rest(s) ==
    [i \in 1..Len(s) |->
        IF i > 1 /\ s[i] \in DOMAIN UpperToLower THEN UpperToLower[s[i]] ELSE s[i]]

\* #[strum(serialize_all = "lowercase")]: the identifier, lowercased.
to_lowercase(s) ==
    [i \in 1..Len(s) |->
        IF s[i] \in DOMAIN UpperToLower THEN UpperToLower[s[i]] ELSE s[i]]

\* #[strum(serialize = ...)] of HTML
HTML_to_string(v) ==
    CASE v = "None"    -> <<"0">>
      [] v = "Enabled" -> <<"1">>

\* #[strum(serialize = ...)] of Monospace
Monospace_to_string(v) ==
    CASE v = "None"    -> <<"0">>
      [] v = "Enabled" -> <<"1">>

\* #[strum(serialize = ...)] of Priority
Priority_to_string(v) ==
    CASE v = "Normal"    -> <<"0">>
      [] v = "Lowest"    -> <<"-", "2">>
      [] v = "Low"       -> <<"-", "1">>
      [] v = "High"      -> <<"1">>
      [] v = "Emergency" -> <<"2">>

Sound_to_string(v) == to_lowercase(SoundIdent[v])

Digit == <<"0", "1", "2", "3", "4", "5", "6", "7", "8", "9">>

\* u64::to_string: decimal text, most significant digit first.
RECURSIVE u64_to_string(_)
u64_to_string(n) ==
    IF n < 10 THEN <<Digit[n + 1]>>
    ELSE Append(u64_to_string(n \div 10), Digit[(n % 10) + 1])

\* Cow<str>::to_string: a copy of the text.
str_to_string(s) == s

---------------------------------------------------------------------------
(* Request, Attachment, Notification *)

\* The monomorphic instances of T: ToString that send passes to append_part.
to_string(T, v) ==
    CASE T = "str"       -> str_to_string(v)
      [] T = "HTML"      -> HTML_to_string(v)
      [] T = "Monospace" -> Monospace_to_string(v)
      [] T = "u64"       -> u64_to_string(v)
      [] T = "Priority"  -> Priority_to_string(v)
      [] T = "Sound"     -> Sound_to_string(v)

\* Attachment::new
Attachment_new(filename, mime_type, content) ==
    [filename |-> filename, mime_type |-> mime_type, content |-> content]

\* Notification::new: the Request it builds (every optional field None).
new(token, user, message) ==
    [token |-> token, user |-> user, message |-> message,
     device |-> NoneOpt, title |-> NoneOpt, html |-> NoneOpt,
     monospace |-> NoneOpt, timestamp |-> NoneOpt, priority |-> NoneOpt,
     url |-> NoneOpt, url_title |-> NoneOpt, sound |-> NoneOpt]

\* A faulty attach, which keeps an attachment the notification already has.
attach_keep_first(current, a) ==
    IF IsSome(current) THEN current ELSE Some(a)

\* Notification::attach: the new value of self.attachment.
attach(current, a) == Some(a)

---------------------------------------------------------------------------
(* The multipart form *)

TextPart(name, value) == [kind |-> "text", name |-> name, value |-> value]

FilePart(name, filename, mime, content) ==
    [kind |-> "file", name |-> name, filename |-> filename, mime |-> mime,
     content |-> content]

\* A faulty append_part, which sends an unset field as an empty text field.
append_part_empty(form_, name, T, value) ==
    IF IsSome(value) THEN Append(form_, TextPart(name, to_string(T, value[1])))
    ELSE Append(form_, TextPart(name, <<>>))

\* Notification::append_part
append_part(form_, name, T, value) ==
    IF IsSome(value) THEN Append(form_, TextPart(name, to_string(T, value[1])))
    ELSE form_

\* Part::mime_str succeeds when the text parses as a media type; modelled as
\* type "/" subtype, both non-empty and free of spaces and further slashes.
mime_str_ok(mime) ==
    /\ Cardinality({i \in 1..Len(mime) : mime[i] = "/"}) = 1
    /\ \A i \in 1..Len(mime) : mime[i] # " "
    /\ mime[1] # "/"
    /\ mime[Len(mime)] # "/"

\* A faulty conversion, which reports a reqwest error as an attachment error.
NotificationError_from_att(e) ==
    CASE e = "reqwest::Error"    -> "Attachment"
      [] e = "serde_json::Error" -> "Deserialize"
      [] e = "AttachmentError"   -> "Attachment"

\* The #[from] conversions of NotificationError, which `?` applies.
NotificationError_from(e) ==
    CASE e = "reqwest::Error"    -> "Reqwest"
      [] e = "serde_json::Error" -> "Deserialize"
      [] e = "AttachmentError"   -> "Attachment"

\* send, up to the POST: the text fields, then the file part.  The result is
\* <<"Ok", form>> or <<"Err", e>>, e the error type that `?` returns early.
send_form(req, att) ==
    LET f0 == <<TextPart("token", str_to_string(req.token)),
                TextPart("user", str_to_string(req.user)),
                TextPart("message", str_to_string(req.message))>>
        f1 == append_part(f0, "device", "str", req.device)
        f2 == append_part(f1, "title", "str", req.title)
        f3 == append_part(f2, "html", "HTML", req.html)
        f4 == append_part(f3, "monospace", "Monospace", req.monospace)
        f5 == append_part(f4, "timestamp", "u64", req.timestamp)
        f6 == append_part(f5, "priority", "Priority", req.priority)
        f7 == append_part(f6, "url", "str", req.url)
        f8 == append_part(f7, "url_title", "str", req.url_title)
        f9 == append_part(f8, "sound", "Sound", req.sound)
    IN  IF IsSome(att)
        THEN IF mime_str_ok(att[1].mime_type)
             THEN <<"Ok", Append(f9, FilePart("attachment", att[1].filename,
                                              att[1].mime_type, att[1].content))>>
             ELSE <<"Err", "reqwest::Error">>
        ELSE <<"Ok", f9>>

---------------------------------------------------------------------------
(* The response *)

U8Max == 255

\* JSON values, tagged; JMissing is a key the object does not have.
JMissing == <<"missing">>
JNull == <<"null">>
JNum(n) == <<"num", n>>
JStr(s) == <<"str", s>>
JArr(a) == <<"arr", a>>

\* A faulty parse, which refuses a response whose status is not 1.
from_str_status1(b) ==
    IF ~b.json THEN <<"Err", "serde_json::Error">>
    ELSE IF b.status[1] # "num" \/ b.status[2] # 1
    THEN <<"Err", "serde_json::Error">>
    ELSE IF b.request[1] # "str" THEN <<"Err", "serde_json::Error">>
    ELSE IF b.errors[1] \in {"missing", "null"}
    THEN <<"Ok", [status |-> b.status[2], request |-> b.request[2],
                  errors |-> NoneOpt]>>
    ELSE IF b.errors[1] = "arr"
    THEN <<"Ok", [status |-> b.status[2], request |-> b.request[2],
                  errors |-> Some(b.errors[2])]>>
    ELSE <<"Err", "serde_json::Error">>

\* A faulty parse, which fills a missing or mistyped field with a default.
from_str_default(b) ==
    IF ~b.json THEN <<"Err", "serde_json::Error">>
    ELSE <<"Ok", [status |-> IF b.status[1] = "num" /\ b.status[2] \in 0..U8Max
                             THEN b.status[2] ELSE 0,
                  request |-> IF b.request[1] = "str" THEN b.request[2] ELSE <<>>,
                  errors |-> IF b.errors[1] = "arr" THEN Some(b.errors[2])
                             ELSE NoneOpt]>>

\* serde_json::from_str::<Response>: status is a u8, request a String, errors
\* an Option<Vec<String>> (absent or null is None).
from_str(b) ==
    IF ~b.json THEN <<"Err", "serde_json::Error">>
    ELSE IF b.status[1] # "num" \/ b.status[2] \notin 0..U8Max
    THEN <<"Err", "serde_json::Error">>
    ELSE IF b.request[1] # "str" THEN <<"Err", "serde_json::Error">>
    ELSE IF b.errors[1] \in {"missing", "null"}
    THEN <<"Ok", [status |-> b.status[2], request |-> b.request[2],
                  errors |-> NoneOpt]>>
    ELSE IF b.errors[1] = "arr"
    THEN <<"Ok", [status |-> b.status[2], request |-> b.request[2],
                  errors |-> Some(b.errors[2])]>>
    ELSE <<"Err", "serde_json::Error">>

\* send, after the body was read: the match on serde_json::from_str.
send_parse(b) ==
    LET r == from_str(b)
    IN  IF r[1] = "Ok" THEN <<"Ok", r[2]>>
        ELSE <<"Err", NotificationError_from(r[2])>>

---------------------------------------------------------------------------
(* Inputs *)

OptionOf(S) == {NoneOpt} \cup {Some(v) : v \in S}

Tokens == {<<"t","o","k","e","n">>}
Users == {<<"u","s","e","r">>}
Messages == {<<"m","e","s","s","a","g","e">>}
Devices == {<<"i","p","h","o","n","e">>}
Titles == {<<"t","i","t","l","e">>}
Urls == {<<"h","t","t","p",":","/","/","x">>}
UrlTitles == {<<"l","i","n","k">>}
Timestamps == {0, 1609459200}
PrioritySample == {"Lowest", "Emergency"}
SoundSample == {"CashRegister", "None"}

PngBytes == <<137, 80, 78, 71, 13, 10, 26, 10>>
JpegBytes == <<255, 216, 255, 224>>

\* Attachments a caller builds with Attachment::new; the last one carries a
\* text that is no media type.
AttachmentPool ==
    { Attachment_new(<<"a",".","p","n","g">>,
                     <<"i","m","a","g","e","/","p","n","g">>, PngBytes),
      Attachment_new(<<"f","i","l","e","n","a","m","e">>,
                     <<"p","l","a","i","n","/","t","e","x","t">>, <<>>),
      Attachment_new(<<"c",".","b","i","n">>,
                     <<"n","o","t"," ","a"," ","m","i","m","e">>, <<1, 2>>) }

HttpStatuses == {200, 400}

RequestId == <<"6","4","7","d">>

JsonBody(status, req, errors) ==
    [json |-> TRUE, status |-> status, request |-> req, errors |-> errors]

\* Response bodies the endpoint may return.
Bodies ==
    { JsonBody(JNum(1), JStr(RequestId), JMissing),
      JsonBody(JNum(0), JStr(RequestId), JArr(<<<<"b","a","d">>>>)),
      JsonBody(JNum(1), JStr(RequestId), JNull),
      JsonBody(JNum(256), JStr(RequestId), JMissing),
      JsonBody(JNum(1), JMissing, JMissing),
      [json |-> FALSE] }

---------------------------------------------------------------------------
(* The library: building a notification and sending it *)

InitSend ==
    /\ \E t \in Tokens, u \in Users, m \in Messages : request = new(t, u, m)
    /\ attachment = NoneOpt
    /\ attached = FALSE
    /\ lastAttach = NoneOpt
    /\ prevAttach = NoneOpt
    /\ sendPc = "idle"
    /\ form = <<>>
    /\ httpStatus = NoneOpt
    /\ body = NoneOpt
    /\ result = NoneOpt

\* Notification::new, also for the next notification after one was sent.
New ==
    /\ sendPc \in {"idle", "done"}
    /\ \E t \in Tokens, u \in Users, m \in Messages : request' = new(t, u, m)
    /\ attachment' = NoneOpt
    /\ attached' = FALSE
    /\ lastAttach' = NoneOpt
    /\ prevAttach' = NoneOpt
    /\ sendPc' = "idle"
    /\ form' = <<>>
    /\ httpStatus' = NoneOpt
    /\ body' = NoneOpt
    /\ result' = NoneOpt
    /\ UNCHANGED <<urlVars, cliVars, enumVars>>

SetField(f, v) ==
    /\ sendPc = "idle"
    /\ request' = [request EXCEPT ![f] = v]
    /\ UNCHANGED <<attachment, attached, lastAttach, prevAttach, sendPc, form,
                   httpStatus, body, result, urlVars, cliVars, enumVars>>

SetDevice == \E v \in OptionOf(Devices) : SetField("device", v)
SetTitle == \E v \in OptionOf(Titles) : SetField("title", v)
SetHtml == \E v \in OptionOf(HTML) : SetField("html", v)
SetMonospace == \E v \in OptionOf(Monospace) : SetField("monospace", v)
SetTimestamp == \E v \in OptionOf(Timestamps) : SetField("timestamp", v)
SetPriority == \E v \in OptionOf(PrioritySample) : SetField("priority", v)
SetUrl == \E v \in OptionOf(Urls) : SetField("url", v)
SetUrlTitle == \E v \in OptionOf(UrlTitles) : SetField("url_title", v)
SetSound == \E v \in OptionOf(SoundSample) : SetField("sound", v)

\* Notification::attach
Attach ==
    /\ sendPc = "idle"
    /\ \E a \in AttachmentPool :
          /\ attachment' = attach(attachment, a)
          /\ lastAttach' = Some(a)
    /\ prevAttach' = lastAttach
    /\ attached' = TRUE
    /\ UNCHANGED <<request, sendPc, form, httpStatus, body, result,
                   urlVars, cliVars, enumVars>>

\* send from its call to the first await: the form is built and the POST
\* issued, or the file part cannot be built and `?` returns the error.
SendStart ==
    /\ sendPc = "idle"
    /\ LET r == send_form(request, attachment)
       IN  IF r[1] = "Ok"
           THEN /\ form' = r[2]
                /\ sendPc' = "awaitSend"
                /\ result' = result
           ELSE /\ form' = form
                /\ sendPc' = "done"
                /\ result' = Some(<<"Err", NotificationError_from(r[2])>>)
    /\ UNCHANGED <<request, attachment, attached, lastAttach, prevAttach,
                   httpStatus, body, urlVars, cliVars, enumVars>>

\* .send().await?: the transport fails, or a response arrives (reqwest does
\* not treat any HTTP status as an error).
SendAwaitSend ==
    /\ sendPc = "awaitSend"
    /\ \/ /\ sendPc' = "done"
          /\ result' = Some(<<"Err", NotificationError_from("reqwest::Error")>>)
          /\ UNCHANGED httpStatus
       \/ /\ \E s \in HttpStatuses : httpStatus' = Some(s)
          /\ sendPc' = "awaitText"
          /\ UNCHANGED result
    /\ UNCHANGED <<request, attachment, attached, lastAttach, prevAttach, form,
                   body, urlVars, cliVars, enumVars>>

\* .text().await?, then the parse: reading the body fails, or the body is
\* parsed and send returns.
SendAwaitText ==
    /\ sendPc = "awaitText"
    /\ \/ /\ result' = Some(<<"Err", NotificationError_from("reqwest::Error")>>)
          /\ UNCHANGED body
       \/ \E b \in Bodies :
             /\ body' = Some(b)
             /\ result' = Some(send_parse(b))
    /\ sendPc' = "done"
    /\ UNCHANGED <<request, attachment, attached, lastAttach, prevAttach, form,
                   httpStatus, urlVars, cliVars, enumVars>>

---------------------------------------------------------------------------
(* Attachment::from_url *)

MaxPathLen == 3

PathChars == {"/", "a", "b"}

\* The paths of the URLs tried: empty, or "/" followed by path characters.
Paths ==
    {<<>>} \cup
    UNION { { <<"/">> \o t : t \in [1..n -> PathChars] } : n \in 0..(MaxPathLen - 1) }

\* The URLs tried: text that is no URL, a URL that cannot be a base (such as
\* data:x, which has no host and no path segments), and http URLs.
UrlInputs ==
    { [kind |-> "malformed"], [kind |-> "opaque"] } \cup
    { [kind |-> "http", path |-> q] : q \in Paths }

\* Url::parse: an error, or the parsed URL; the empty path of an http URL is
\* normalised to "/".
Url_parse(u) ==
    IF u.kind = "malformed" THEN <<"Err", "url::ParseError">>
    ELSE IF u.kind = "opaque"
    THEN <<"Ok", [cannot_be_a_base |-> TRUE, path |-> <<"x">>]>>
    ELSE <<"Ok", [cannot_be_a_base |-> FALSE,
                  path |-> IF u.path = <<>> THEN <<"/">> ELSE u.path]>>

\* str::split('/'): the pieces between the separators, at least one.
RECURSIVE split(_, _)
split(s, sep) ==
    IF \A i \in 1..Len(s) : s[i] # sep THEN <<s>>
    ELSE LET k == CHOOSE i \in 1..Len(s) :
                      s[i] = sep /\ \A j \in 1..(i - 1) : s[j] # sep
         IN  <<SubSeq(s, 1, k - 1)>> \o split(SubSeq(s, k + 1, Len(s)), sep)

\* Url::path_segments: None for a URL that cannot be a base, else the path
\* after its leading "/", split at "/".
path_segments(parsed) ==
    IF parsed.cannot_be_a_base THEN NoneOpt
    ELSE Some(split(Tail(parsed.path), "/"))

FilenameDefault == <<"f","i","l","e","n","a","m","e">>

\* The `filename` of from_url:
\* path_segments().map_or("filename", |t| t.last().map_or("filename", |t1| t1))
from_url_filename(parsed) ==
    LET segs == path_segments(parsed)
    IN  IF ~IsSome(segs) THEN FilenameDefault
        ELSE IF Len(segs[1]) = 0 THEN FilenameDefault
        ELSE segs[1][Len(segs[1])]

\* infer::get: the media type of a known signature at the start of the
\* bytes, or None.
infer_get(buf) ==
    IF Len(buf) >= 4 /\ SubSeq(buf, 1, 4) = <<137, 80, 78, 71>>
    THEN Some(<<"i","m","a","g","e","/","p","n","g">>)
    ELSE IF Len(buf) >= 3 /\ SubSeq(buf, 1, 3) = <<255, 216, 255>>
    THEN Some(<<"i","m","a","g","e","/","j","p","e","g">>)
    ELSE NoneOpt

\* The bodies a GET may return.
Buffers == {PngBytes, JpegBytes, <<>>, <<104, 105>>}

GetStatuses == {200, 404}

\* A faulty start, which issues the GET before it looks at the URL.
from_url_start_get_first(u) ==
    LET r == Url_parse(u)
    IN  IF r[1] = "Err"
        THEN [pc |-> "done", filename |-> NoneOpt, gets |-> 1,
              result |-> Some(<<"Err", "Url">>)]
        ELSE [pc |-> "awaitGet", filename |-> Some(from_url_filename(r[2])),
              gets |-> 1, result |-> NoneOpt]

\* from_url from its call to the first await: the URL is parsed (`?` returns
\* AttachmentError::Url), the filename chosen and reqwest::get called.
from_url_start(u) ==
    LET r == Url_parse(u)
    IN  IF r[1] = "Err"
        THEN [pc |-> "done", filename |-> NoneOpt, gets |-> 0,
              result |-> Some(<<"Err", "Url">>)]
        ELSE [pc |-> "awaitGet", filename |-> Some(from_url_filename(r[2])),
              gets |-> 1, result |-> NoneOpt]

\* A faulty continuation, which refuses a response without a success status.
from_url_response_checked(status) ==
    IF status \in 200..299 THEN [pc |-> "awaitBytes", result |-> NoneOpt]
    ELSE [pc |-> "done", result |-> Some(<<"Err", "Reqwest">>)]

\* from_url when the GET returned a response: its status is not looked at,
\* and the body is read.
from_url_response(status) == [pc |-> "awaitBytes", result |-> NoneOpt]

\* from_url after the body was read: the media type is inferred and the
\* Attachment built, or `?` returns AttachmentError::Infer.
from_url_finish(filename, buffer) ==
    LET m == infer_get(buffer)
    IN  IF IsSome(m)
        THEN <<"Ok", [filename |-> filename, mime_type |-> m[1],
                      content |-> buffer]>>
        ELSE <<"Err", "Infer">>

IdleUrl ==
    /\ fuPc = "idle"
    /\ fuUrl = NoneOpt
    /\ fuFilename = NoneOpt
    /\ fuStatus = NoneOpt
    /\ fuBuffer = NoneOpt
    /\ fuResult = NoneOpt
    /\ getCount = 0

FromUrlCall ==
    /\ fuPc = "idle"
    /\ \E u \in UrlInputs :
          LET r == from_url_start(u)
          IN  /\ fuUrl' = Some(u)
              /\ fuPc' = r.pc
              /\ fuFilename' = r.filename
              /\ getCount' = getCount + r.gets
              /\ fuResult' = r.result
    /\ UNCHANGED <<fuStatus, fuBuffer, sendVars, cliVars, enumVars>>

\* reqwest::get(url).await?: the request fails (always, for a URL without a
\* host, which reqwest refuses), or a response arrives.
FromUrlAwaitGet ==
    /\ fuPc = "awaitGet"
    /\ \/ /\ fuPc' = "done"
          /\ fuResult' = Some(<<"Err", "Reqwest">>)
          /\ UNCHANGED fuStatus
       \/ /\ fuUrl[1].kind = "http"
          /\ \E s \in GetStatuses :
                /\ fuStatus' = Some(s)
                /\ fuPc' = from_url_response(s).pc
                /\ fuResult' = from_url_response(s).result
    /\ UNCHANGED <<fuUrl, fuFilename, fuBuffer, getCount, sendVars, cliVars,
                   enumVars>>

\* res.bytes().await?, then the rest of from_url.
FromUrlAwaitBytes ==
    /\ fuPc = "awaitBytes"
    /\ \/ /\ fuResult' = Some(<<"Err", "Reqwest">>)
          /\ UNCHANGED fuBuffer
       \/ \E b \in Buffers :
             /\ fuBuffer' = Some(b)
             /\ fuResult' = Some(from_url_finish(fuFilename[1], b))
    /\ fuPc' = "done"
    /\ UNCHANGED <<fuUrl, fuFilename, fuStatus, getCount, sendVars, cliVars,
                   enumVars>>

\* The caller takes the result; the next call starts afresh.
FromUrlReturn ==
    /\ fuPc = "done"
    /\ fuPc' = "idle"
    /\ fuUrl' = NoneOpt
    /\ fuFilename' = NoneOpt
    /\ fuStatus' = NoneOpt
    /\ fuBuffer' = NoneOpt
    /\ fuResult' = NoneOpt
    /\ getCount' = 0
    /\ UNCHANGED <<sendVars, cliVars, enumVars>>

---------------------------------------------------------------------------
(* po: the command line front end *)

\* The values of Opts that structopt may hand to main.
OptsInputs ==
    [token : Tokens, user : Users, message : Messages, verbose : BOOLEAN,
     html : BOOLEAN, monospace : BOOLEAN, device : OptionOf(Devices),
     title : OptionOf(Titles), timestamp : OptionOf(Timestamps),
     file : OptionOf({<<"p",".","p","n","g">>})]

\* main, "set extra options": the request main builds from its options.
main_request(o) ==
    LET n0 == new(o.token, o.user, o.message)
        n1 == IF IsSome(o.device) THEN [n0 EXCEPT !.device = Some(o.device[1])]
              ELSE n0
        n2 == IF IsSome(o.title) THEN [n1 EXCEPT !.title = Some(o.title[1])]
              ELSE n1
        n3 == IF IsSome(o.timestamp)
              THEN [n2 EXCEPT !.timestamp = Some(o.timestamp[1])]
              ELSE n2
    IN  IF o.html
        THEN LET n4 == [n3 EXCEPT !.html = Some("Enabled")]
             IN  IF o.monospace THEN [n4 EXCEPT !.monospace = Some("Enabled")]
                 ELSE n4
        ELSE n3

\* Attachment::from_path, which src/src/attachment.rs does not define: it
\* fails, or yields an attachment read from the file.
from_path(path) ==
    { <<"Err", "AttachmentError">> } \cup { <<"Ok", a>> : a \in AttachmentPool }

IdleCli ==
    /\ opts = NoneOpt
    /\ cliPc = "none"

InitCli ==
    /\ \E o \in OptsInputs : opts = Some(o)
    /\ cliPc = "start"
    /\ request = new(<<>>, <<>>, <<>>)
    /\ attachment = NoneOpt
    /\ attached = FALSE
    /\ lastAttach = NoneOpt
    /\ prevAttach = NoneOpt
    /\ sendPc = "unbuilt"
    /\ form = <<>>
    /\ httpStatus = NoneOpt
    /\ body = NoneOpt
    /\ result = NoneOpt

\* main up to its first await: the notification is built and, without
\* --file, send is called; with --file, from_path is awaited.
MainStart ==
    /\ cliPc = "start"
    /\ request' = main_request(opts[1])
    /\ IF IsSome(opts[1].file)
       THEN cliPc' = "awaitPath" /\ sendPc' = sendPc
       ELSE cliPc' = "sending" /\ sendPc' = "idle"
    /\ UNCHANGED <<attachment, attached, lastAttach, prevAttach, form,
                   httpStatus, body, result, opts, urlVars, enumVars>>

\* Attachment::from_path(p).await?: main returns the error, or attaches the
\* file and calls send.
MainAwaitPath ==
    /\ cliPc = "awaitPath"
    /\ \E r \in from_path(opts[1].file[1]) :
          IF r[1] = "Err"
          THEN /\ cliPc' = "exitErr"
               /\ UNCHANGED <<attachment, attached, lastAttach, prevAttach,
                              sendPc>>
          ELSE /\ attachment' = attach(attachment, r[2])
               /\ lastAttach' = Some(r[2])
               /\ prevAttach' = lastAttach
               /\ attached' = TRUE
               /\ cliPc' = "sending"
               /\ sendPc' = "idle"
    /\ UNCHANGED <<request, form, httpStatus, body, result, opts, urlVars,
                   enumVars>>

\* notification.send().await?: main returns the error, or Ok(()).
MainExit ==
    /\ cliPc = "sending"
    /\ sendPc = "done"
    /\ cliPc' = IF result[1][1] = "Ok" THEN "exitOk" ELSE "exitErr"
    /\ UNCHANGED <<sendVars, opts, urlVars, enumVars>>

---------------------------------------------------------------------------
(* The wire value of every enumeration value *)

EnumInputs ==
    { <<"HTML", a, b>> : a \in HTML, b \in HTML } \cup
    { <<"Monospace", a, b>> : a \in Monospace, b \in Monospace } \cup
    { <<"Priority", a, b>> : a \in Priority, b \in Priority } \cup
    { <<"Sound", a, b>> : a \in Sound, b \in Sound }

IdleEnum ==
    /\ enumIn = <<"HTML", "None", "None">>
    /\ enumOut = NoneOpt

InitEnum ==
    /\ enumIn \in EnumInputs
    /\ enumOut = NoneOpt

\* to_string is applied to both values.
Encode ==
    /\ enumOut = NoneOpt
    /\ enumOut' = Some(<<to_string(enumIn[1], enumIn[2]),
                         to_string(enumIn[1], enumIn[3])>>)
    /\ UNCHANGED <<enumIn, sendVars, urlVars, cliVars>>

---------------------------------------------------------------------------
(* Specifications *)

\* The library: a notification is built, given attachments, and sent.
Init == InitSend /\ IdleUrl /\ IdleCli /\ IdleEnum

Next ==
    \/ New
    \/ SetDevice
    \/ SetTitle
    \/ SetHtml
    \/ SetMonospace
    \/ SetTimestamp
    \/ SetPriority
    \/ SetUrl
    \/ SetUrlTitle
    \/ SetSound
    \/ Attach
    \/ SendStart
    \/ SendAwaitSend
    \/ SendAwaitText

Spec == Init /\ [][Next]_vars

\* Attachment::from_url, called again and again.
InitUrl == InitSend /\ IdleUrl /\ IdleCli /\ IdleEnum

NextUrl ==
    \/ FromUrlCall
    \/ FromUrlAwaitGet
    \/ FromUrlAwaitBytes
    \/ FromUrlReturn

SpecUrl == InitUrl /\ [][NextUrl]_vars

\* po: one run of main.
InitMain == InitCli /\ IdleUrl /\ IdleEnum

NextMain ==
    \/ MainStart
    \/ MainAwaitPath
    \/ SendStart
    \/ SendAwaitSend
    \/ SendAwaitText
    \/ MainExit

SpecMain == InitMain /\ [][NextMain]_vars

\* The enumerations: every pair of values of one enumeration is encoded.
InitEnums == InitSend /\ IdleUrl /\ IdleCli /\ InitEnum

NextEnum == Encode

SpecEnum == InitEnums /\ [][NextEnum]_vars

---------------------------------------------------------------------------
(* The wire contract, as the documentation states it *)

WireFlag == ("None" :> <<"0">>) @@ ("Enabled" :> <<"1">>)

WirePriority ==
       ("Lowest"    :> <<"-","2">>)
    @@ ("Low"       :> <<"-","1">>)
    @@ ("Normal"    :> <<"0">>)
    @@ ("High"      :> <<"1">>)
    @@ ("Emergency" :> <<"2">>)

WireSound ==
       ("Pushover"     :> <<"p","u","s","h","o","v","e","r">>)
    @@ ("Bike"         :> <<"b","i","k","e">>)
    @@ ("Bugle"        :> <<"b","u","g","l","e">>)
    @@ ("CashRegister" :> <<"c","a","s","h","r","e","g","i","s","t","e","r">>)
    @@ ("Classical"    :> <<"c","l","a","s","s","i","c","a","l">>)
    @@ ("Cosmic"       :> <<"c","o","s","m","i","c">>)
    @@ ("Falling"      :> <<"f","a","l","l","i","n","g">>)
    @@ ("GameLan"      :> <<"g","a","m","e","l","a","n">>)
    @@ ("Incoming"     :> <<"i","n","c","o","m","i","n","g">>)
    @@ ("Intermission" :> <<"i","n","t","e","r","m","i","s","s","i","o","n">>)
    @@ ("Magic"        :> <<"m","a","g","i","c">>)
    @@ ("Mechanical"   :> <<"m","e","c","h","a","n","i","c","a","l">>)
    @@ ("PianoBar"     :> <<"p","i","a","n","o","b","a","r">>)
    @@ ("Siren"        :> <<"s","i","r","e","n">>)
    @@ ("SpaceAlarm"   :> <<"s","p","a","c","e","a","l","a","r","m">>)
    @@ ("Tugboat"      :> <<"t","u","g","b","o","a","t">>)
    @@ ("Alien"        :> <<"a","l","i","e","n">>)
    @@ ("Climb"        :> <<"c","l","i","m","b">>)
    @@ ("Persistent"   :> <<"p","e","r","s","i","s","t","e","n","t">>)
    @@ ("Echo"         :> <<"e","c","h","o">>)
    @@ ("UpDown"       :> <<"u","p","d","o","w","n">>)
    @@ ("Vibrate"      :> <<"v","i","b","r","a","t","e">>)
    @@ ("None"         :> <<"n","o","n","e">>)

WireDecimal ==
       (0          :> <<"0">>)
    @@ (1609459200 :> <<"1","6","0","9","4","5","9","2","0","0">>)

RequiredFields == {"token", "user", "message"}

OptionalFields ==
    {"device", "title", "html", "monospace", "timestamp", "priority", "url",
     "url_title", "sound"}

\* The documented wire value of value v of optional field f.
WireValue(f, v) ==
    CASE f \in {"html", "monospace"} -> WireFlag[v]
      [] f = "priority"  -> WirePriority[v]
      [] f = "sound"     -> WireSound[v]
      [] f = "timestamp" -> WireDecimal[v]
      [] OTHER           -> v

TextIndices(f) == {i \in DOMAIN form : form[i].kind = "text" /\ form[i].name = f}

FileIndices == {i \in DOMAIN form : form[i].kind = "file"}

\* send built its form (a built form is never empty: it has the token).
FormBuilt == form # <<>>

\* C1: the form send builds holds exactly one text field for each of token,
\* user and message, exactly one text field with the documented wire value
\* for every optional field that is set, no field for an optional field that
\* is unset, and no other text field; after new() alone, three text fields.
C1_FormFields ==
    FormBuilt =>
        /\ \A f \in RequiredFields :
              /\ Cardinality(TextIndices(f)) = 1
              /\ \A i \in TextIndices(f) : form[i].value = request[f]
        /\ \A f \in OptionalFields :
              IF IsSome(request[f])
              THEN /\ Cardinality(TextIndices(f)) = 1
                   /\ \A i \in TextIndices(f) :
                         form[i].value = WireValue(f, request[f][1])
              ELSE TextIndices(f) = {}
        /\ \A i \in DOMAIN form :
              form[i].kind = "text" =>
                  form[i].name \in RequiredFields \cup OptionalFields
        /\ (\A f \in OptionalFields : request[f] = NoneOpt) =>
              Cardinality({i \in DOMAIN form : form[i].kind = "text"}) = 3

\* A form built from a request with some optional fields set (one of them a
\* timestamp of several digits) and the others unset.
C1_Witness ==
    /\ FormBuilt
    /\ request.timestamp = Some(1609459200)
    /\ request.priority = Some("Lowest")
    /\ request.sound = Some("CashRegister")
    /\ request.html = Some("Enabled")
    /\ request.device # NoneOpt
    /\ request.title = NoneOpt
    /\ request.monospace = NoneOpt
    /\ request.url = NoneOpt
    /\ request.url_title # NoneOpt

InvalidMime == <<"n","o","t"," ","a"," ","m","i","m","e">>

\* The file part that carries attachment a.
FilePartOf(a) ==
    [kind |-> "file", name |-> "attachment", filename |-> a.filename,
     mime |-> a.mime_type, content |-> a.content]

\* C2 as stated: the notification holds the attachment of the most recent
\* attach call, and a following send emits exactly one file part, carrying
\* it, whenever attach was called, and no file part when it never was.
C2_Original ==
    /\ attachment = lastAttach
    /\ attached = IsSome(lastAttach)
    /\ sendPc # "idle" =>
          IF attached
          THEN /\ Cardinality(FileIndices) = 1
               /\ \A i \in FileIndices : form[i] = FilePartOf(lastAttach[1])
          ELSE FileIndices = {}

\* C2, amended: the notification holds the attachment of the most recent
\* attach call (none if attach was never called); a following send builds a
\* form with exactly one file part, carrying that attachment, when its MIME
\* type text is a media type, a form with no file part when attach was never
\* called, and no form at all (send fails) when the text is no media type.
C2_LastAttachmentSent ==
    /\ attachment = lastAttach
    /\ attached = IsSome(lastAttach)
    /\ sendPc # "idle" =>
          IF ~attached THEN FormBuilt /\ FileIndices = {}
          ELSE IF lastAttach[1].mime_type = InvalidMime
          THEN ~FormBuilt /\ sendPc = "done" /\ result[1][1] = "Err"
          ELSE /\ Cardinality(FileIndices) = 1
               /\ \A i \in FileIndices : form[i] = FilePartOf(lastAttach[1])

\* Two different attachments were attached one after the other (the
\* notification holds the second) and the form was built.
C2_Witness ==
    /\ FormBuilt
    /\ attached
    /\ IsSome(prevAttach)
    /\ prevAttach # lastAttach
    /\ mime_str_ok(prevAttach[1].mime_type)
    /\ FileIndices # {}

\* send was called on a notification whose attachment carries a text that is
\* no media type, and has returned.
InvalidMimeSent ==
    /\ sendPc = "done"
    /\ IsSome(attachment)
    /\ attachment[1].mime_type = InvalidMime

\* C5 as stated: that send returns NotificationError::Attachment.
C5_Original == InvalidMimeSent => result = Some(<<"Err", "Attachment">>)

\* C5, amended: send on a notification whose attachment carries an invalid
\* MIME type text returns NotificationError::Reqwest (the error of mime_str
\* is a reqwest::Error), before any POST: no form is built, no response read.
C5_InvalidMimeIsReqwest ==
    InvalidMimeSent =>
        /\ result = Some(<<"Err", "Reqwest">>)
        /\ ~FormBuilt
        /\ httpStatus = NoneOpt
        /\ body = NoneOpt

C5_Witness == InvalidMimeSent /\ result[1][1] = "Err"

\* The body is JSON of the shape of Response: status an integer that fits a
\* u8, request a string, errors absent, null or an array of strings.
MatchesResponse(b) ==
    /\ b.json
    /\ b.status[1] = "num" /\ b.status[2] >= 0 /\ b.status[2] <= 255
    /\ b.request[1] = "str"
    /\ b.errors[1] \in {"missing", "null", "arr"}

\* The Response that copies the fields of body b.
ResponseOf(b) ==
    [status |-> b.status[2], request |-> b.request[2],
     errors |-> IF b.errors[1] = "arr" THEN <<b.errors[2]>> ELSE <<>>]

\* C6: when the POST completed and the body is JSON of the Response shape,
\* send returns Ok(Response) with status, request and errors copied from the
\* body, whatever the value of status and whatever the HTTP status code.
C6_UpstreamFailureIsOk ==
    (sendPc = "done" /\ IsSome(body) /\ MatchesResponse(body[1])) =>
        result = Some(<<"Ok", ResponseOf(body[1])>>)

\* An HTTP 400 with status 0 and errors came back, and send returned Ok.
C6_Witness ==
    /\ sendPc = "done"
    /\ httpStatus = Some(400)
    /\ IsSome(body) /\ MatchesResponse(body[1])
    /\ body[1].status = <<"num", 0>>
    /\ body[1].errors[1] = "arr"
    /\ result[1][1] = "Ok"

\* C7: send ends in exactly one outcome, there from the moment it returns
\* and not before; a Response only after the whole round trip, and then the
\* complete parse of a body of the Response shape; the Deserialize error
\* when the body is not of that shape; the Reqwest error when the transport
\* fails (no response, or a response whose body cannot be read).
C7_OneOutcome ==
    /\ IsSome(result) <=> sendPc = "done"
    /\ IsSome(result) => result[1][1] \in {"Ok", "Err"}
    /\ (IsSome(result) /\ result[1][1] = "Ok") =>
          /\ FormBuilt /\ IsSome(httpStatus) /\ IsSome(body)
          /\ MatchesResponse(body[1])
          /\ result[1][2] = ResponseOf(body[1])
    /\ (sendPc = "done" /\ IsSome(body) /\ ~MatchesResponse(body[1])) =>
          result = Some(<<"Err", "Deserialize">>)
    /\ (sendPc = "done" /\ FormBuilt /\ ~IsSome(body)) =>
          result = Some(<<"Err", "Reqwest">>)

\* A body that is JSON but lacks a field came back: the Deserialize error.
C7_Witness ==
    /\ sendPc = "done"
    /\ IsSome(body) /\ body[1].json /\ body[1].request = <<"missing">>
    /\ result = Some(<<"Err", "Deserialize">>)

---------------------------------------------------------------------------
(* Claims about Attachment::from_url *)

SlashIndices(q) == {i \in 1..Len(q) : q[i] = "/"}

\* The filename the documentation gives for a URL with path q: the text
\* after the last "/", and "filename" when there is no path segment or the
\* last one is empty.
DocumentedFilename(q) ==
    IF SlashIndices(q) = {} THEN FilenameDefault
    ELSE LET k == CHOOSE i \in SlashIndices(q) : \A j \in SlashIndices(q) : j <= i
         IN  IF k = Len(q) THEN FilenameDefault ELSE SubSeq(q, k + 1, Len(q))

\* C3 as stated: whenever from_url succeeds, the filename is the last path
\* segment of the URL, and "filename" when the URL has no path segments or
\* its last path segment is empty.
C3_Original ==
    (fuPc = "done" /\ fuResult[1][1] = "Ok") =>
        fuResult[1][2].filename = DocumentedFilename(fuUrl[1].path)

\* The bytes start with a signature that infer knows.
KnownSignature(buf) == buf \in {PngBytes, JpegBytes}

\* C4 as stated: from_url returns the Reqwest error whenever the GET ends in
\* a transport failure or in a response without a success status.
C4_Original ==
    (fuPc = "done" /\ getCount = 1
        /\ (fuStatus = NoneOpt \/ fuStatus[1] \notin 200..299)) =>
        fuResult = Some(<<"Err", "Reqwest">>)

C4_Invariant ==
    /\ (fuPc = "done" /\ getCount = 1 /\ (fuStatus = NoneOpt \/ fuBuffer = NoneOpt))
          => fuResult = Some(<<"Err", "Reqwest">>)
    /\ (fuPc = "done" /\ IsSome(fuBuffer)) =>
          IF KnownSignature(fuBuffer[1])
          THEN /\ fuResult[1][1] = "Ok"
               /\ fuResult[1][2].content = fuBuffer[1]
          ELSE fuResult = Some(<<"Err", "Infer">>)

C4_Step ==
    (fuPc = "awaitGet" /\ IsSome(fuStatus')) => (fuPc' = "awaitBytes")

\* C4, amended: from_url returns the Reqwest error whenever the GET, or the
\* reading of the body, ends in a transport failure.  The HTTP status of a
\* response is not looked at: after any response, of whatever status, the body
\* is read, and once it is read from_url returns an Attachment holding it when
\* its bytes start with a known signature and the Infer error otherwise.
C4_StatusIgnored == [](C4_Invariant) /\ [][C4_Step]_vars

\* A response with status 404 whose body is a PNG became an Attachment.
C4_Witness ==
    /\ fuPc = "done"
    /\ fuStatus = Some(404)
    /\ fuBuffer = Some(PngBytes)
    /\ fuResult[1][1] = "Ok"

\* C9: from_url parses the URL, then GETs, then reads the body, then infers
\* the media type, and stops at the first stage that fails: a malformed URL
\* gives the Url error and no GET; the Infer error comes only after a fetch
\* that completed; a call makes at most one GET, and exactly one when the
\* URL parses.
C9_StageOrder ==
    /\ getCount <= 1
    /\ fuPc # "idle" =>
          /\ (fuUrl[1].kind = "malformed") <=> (getCount = 0)
          /\ (fuUrl[1].kind = "malformed") <=> (fuResult = Some(<<"Err", "Url">>))
    /\ fuResult = Some(<<"Err", "Url">>) =>
          fuPc = "done" /\ fuStatus = NoneOpt /\ fuBuffer = NoneOpt
    /\ IsSome(fuStatus) => getCount = 1
    /\ IsSome(fuBuffer) => IsSome(fuStatus)
    /\ fuResult = Some(<<"Err", "Infer">>) =>
          fuPc = "done" /\ getCount = 1 /\ IsSome(fuStatus) /\ IsSome(fuBuffer)
    /\ (IsSome(fuResult) /\ fuResult[1][1] = "Ok") =>
          fuPc = "done" /\ getCount = 1 /\ IsSome(fuBuffer)
    /\ IsSome(fuResult) <=> fuPc = "done"

\* The fetch completed and the bytes have no known signature: Infer.
C9_Witness ==
    /\ fuPc = "done"
    /\ getCount = 1
    /\ IsSome(fuBuffer)
    /\ fuResult = Some(<<"Err", "Infer">>)

---------------------------------------------------------------------------
(* Claims about the enumerations and about po *)

\* The documented wire value of value v of enumeration E.
WireOf(E, v) ==
    CASE E \in {"HTML", "Monospace"} -> WireFlag[v]
      [] E = "Priority" -> WirePriority[v]
      [] E = "Sound"    -> WireSound[v]

\* C8: the wire value of every enumeration value is the documented one ("0"
\* and "1" for HTML and Monospace, "-2" to "2" for Priority, the lowercase
\* name for Sound), and two values of one enumeration never share one.
C8_WireEncoding ==
    IsSome(enumOut) =>
        /\ enumOut[1][1] = WireOf(enumIn[1], enumIn[2])
        /\ enumOut[1][2] = WireOf(enumIn[1], enumIn[3])
        /\ enumIn[2] # enumIn[3] => enumOut[1][1] # enumOut[1][2]

\* CashRegister and SpaceAlarm were encoded.
C8_Witness ==
    /\ enumIn = <<"Sound", "CashRegister", "SpaceAlarm">>
    /\ enumOut = Some(<<<<"c","a","s","h","r","e","g","i","s","t","e","r">>,
                        <<"s","p","a","c","e","a","l","a","r","m">>>>)

\* C10 as stated: once main has built the request, html is Enabled exactly
\* when --html was given and monospace is Enabled exactly when --monospace
\* was given, each whatever the other; device, title and timestamp are set
\* exactly when their flag was given.
C10_Original ==
    cliPc \notin {"none", "start"} =>
        /\ request.html = (IF opts[1].html THEN Some("Enabled") ELSE NoneOpt)
        /\ request.monospace =
              (IF opts[1].monospace THEN Some("Enabled") ELSE NoneOpt)
        /\ request.device = opts[1].device
        /\ request.title = opts[1].title
        /\ request.timestamp = opts[1].timestamp

===========================================================================
